---- MODULE Spec2Model ----
(***************************************************************************)
(* TextColor (src/buffer/out/TextColor.cpp): a tagged colour value that is *)
(* either "default", a 24-bit RGB triplet, or an index into a colour       *)
(* table, and GetColor, which resolves it against a colour table, a        *)
(* default colour and a "brighten" flag.                                   *)
(*                                                                         *)
(* The object under study is `this`; its fields are the variables _meta,   *)
(* _red, _green, _blue (_index shares its byte with _red).  Every public   *)
(* method is one action; the methods themselves are operators on a record  *)
(* of the four fields so that they can also be applied to a freshly        *)
(* constructed object.  COLORREF is an unsigned 32-bit value 0x00bbggrr.   *)
(***************************************************************************)
EXTENDS Integers, Sequences, FiniteSets, TLC

VARIABLES _meta, _red, _green, _blue, lastSetter, ret

vars == <<_meta, _red, _green, _blue, lastSetter, ret>>

(***************************************************************************)
(* Bounds of the explored inputs.                                          *)
(***************************************************************************)
\* indices 0..MaxIndex are passed to SetIndex (plus two 256-colour indices)
MaxIndex == 17
\* colour tables of every length 0..MaxPaletteLen are passed to GetColor
\* (plus the lengths around the two 256-colour indices)
MaxPaletteLen == 17
\* number of different contents tried for every colour table length
NumContents == 2

Indices == (0 .. MaxIndex) \cup {200, 255}

PaletteLens == (0 .. MaxPaletteLen) \cup {200, 201, 255, 256}

(***************************************************************************)
(* COLORREF packing (the RGB / GetXValue macros used by the methods).      *)
(***************************************************************************)
GetRValue(rgbColor) == rgbColor % 256

GetGValue(rgbColor) == (rgbColor \div 256) % 256

GetBValue(rgbColor) == (rgbColor \div 65536) % 256

RGB(r, g, b) == r + (g * 256) + (b * 65536)

\* COLORREFs handed to SetColor and as defaultColor: 0x000A0B0C, 0x00FFFFFF,
\* 0x00000003 and 0x01000003 (a COLORREF whose high byte is not zero)
Colors == {658188, 16777215, 3, 16777219}

DefaultColors == {658188, 3}

\* what a read past the end of the colour table may yield
Garbage == {0, 16777215}

\* entry k (0-based) of the colour table with contents number s
Entry(s, k) == IF s = 1 THEN RGB(k, 16, 32) ELSE RGB(255 - k, k, 64 + s)

Palettes == {[k \in 1 .. n |-> Entry(s, k - 1)] : n \in PaletteLens, s \in 1 .. NumContents}

(***************************************************************************)
(* The object.                                                             *)
(***************************************************************************)
this == [meta |-> _meta, red |-> _red, green |-> _green, blue |-> _blue]

\* union { BYTE _red, _index; }
_index(self) == self.red

\* TextColor(): a default colour; the payload bytes are not specified
TextColor(r, g, b) == [meta |-> "IsDefault", red |-> r, green |-> g, blue |-> b]

IsDefault(self) == self.meta = "IsDefault"

IsRgb(self) == self.meta = "IsRgb"

\* mutant: IsLegacy tests the default tag only
IsLegacy_NotDefault(self) == ~IsDefault(self)

IsLegacy(self) == ~(IsDefault(self) \/ IsRgb(self))

\* mutant: the components are stored in the order blue, green, red
SetColor_SwapsRedBlue(self, rgbColor) ==
    [meta |-> "IsRgb",
     red |-> GetBValue(rgbColor),
     green |-> GetGValue(rgbColor),
     blue |-> GetRValue(rgbColor)]

SetColor(self, rgbColor) ==
    [meta |-> "IsRgb",
     red |-> GetRValue(rgbColor),
     green |-> GetGValue(rgbColor),
     blue |-> GetBValue(rgbColor)]

\* mutant: the tag is set but the index is not stored
SetIndex_TagOnly(self, index) == [self EXCEPT !.meta = "IsIndex"]

SetIndex(self, index) == [self EXCEPT !.meta = "IsIndex", !.red = index]

\* mutant: the tag is left as it was
SetDefault_KeepsTag(self) == self

SetDefault(self) == [self EXCEPT !.meta = "IsDefault"]

_GetRGB(self) == RGB(self.red, self.green, self.blue)

(***************************************************************************)
(* Outcomes of a call.  read is the position of the colour table that was  *)
(* read, -1 if none.                                                       *)
(***************************************************************************)
NoRead == 0 - 1

Returned(c, pos) == [kind |-> "color", color |-> c, flag |-> FALSE, read |-> pos]

\* FAIL_FAST_IF fired: the process is terminated
FailFast == [kind |-> "failfast", color |-> 0, flag |-> FALSE, read |-> NoRead]

\* the out-of-range read faulted: the process is terminated
Fault(pos) == [kind |-> "fault", color |-> 0, flag |-> FALSE, read |-> pos]

Void == [kind |-> "void", color |-> 0, flag |-> FALSE, read |-> NoRead]

Bool(b) == [kind |-> "bool", color |-> 0, flag |-> b, read |-> NoRead]

\* colorTable[pos] of a basic_string_view: the element when pos is in range,
\* undefined behaviour otherwise (any value, or a fault)
Subscript(colorTable, pos) ==
    IF pos < Len(colorTable)
    THEN {Returned(colorTable[pos + 1], pos)}
    ELSE {Returned(g, pos) : g \in Garbage} \cup {Fault(pos)}

\* mutant: brighten is ignored
GetColor_IgnoresBrighten(self, colorTable, defaultColor, brighten) ==
    IF IsDefault(self) THEN {Returned(defaultColor, NoRead)}
    ELSE IF IsRgb(self) THEN {Returned(_GetRGB(self), NoRead)}
    ELSE IF Len(colorTable) < _index(self) THEN {FailFast}
    ELSE Subscript(colorTable, _index(self))

\* mutant: brighten is applied to every index, not only to those below 8
GetColor_BrightensAll(self, colorTable, defaultColor, brighten) ==
    IF IsDefault(self) THEN {Returned(defaultColor, NoRead)}
    ELSE IF IsRgb(self) THEN {Returned(_GetRGB(self), NoRead)}
    ELSE IF Len(colorTable) < _index(self) THEN {FailFast}
    ELSE IF brighten
         THEN IF Len(colorTable) < 16 THEN {FailFast}
              ELSE IF _index(self) + 8 > Len(colorTable) THEN {FailFast}
              ELSE Subscript(colorTable, _index(self) + 8)
         ELSE Subscript(colorTable, _index(self))

\* mutant: the check that the colour table has 16 entries is missing
GetColor_NoSixteenCheck(self, colorTable, defaultColor, brighten) ==
    IF IsDefault(self) THEN {Returned(defaultColor, NoRead)}
    ELSE IF IsRgb(self) THEN {Returned(_GetRGB(self), NoRead)}
    ELSE IF Len(colorTable) < _index(self) THEN {FailFast}
    ELSE IF brighten /\ _index(self) < 8
         THEN IF _index(self) + 8 > Len(colorTable) THEN {FailFast}
              ELSE Subscript(colorTable, _index(self) + 8)
         ELSE Subscript(colorTable, _index(self))

\* mutant: a colour table of exactly 16 entries is rejected when brightening
GetColor_SixteenRejected(self, colorTable, defaultColor, brighten) ==
    IF IsDefault(self) THEN {Returned(defaultColor, NoRead)}
    ELSE IF IsRgb(self) THEN {Returned(_GetRGB(self), NoRead)}
    ELSE IF Len(colorTable) < _index(self) THEN {FailFast}
    ELSE IF brighten /\ _index(self) < 8
         THEN IF Len(colorTable) <= 16 THEN {FailFast}
              ELSE IF _index(self) + 8 > Len(colorTable) THEN {FailFast}
              ELSE Subscript(colorTable, _index(self) + 8)
         ELSE Subscript(colorTable, _index(self))

\* the set of outcomes GetColor can have
GetColor(self, colorTable, defaultColor, brighten) ==
    IF IsDefault(self) THEN {Returned(defaultColor, NoRead)}
    ELSE IF IsRgb(self) THEN {Returned(_GetRGB(self), NoRead)}
    ELSE IF Len(colorTable) < _index(self) THEN {FailFast}
    ELSE IF brighten /\ _index(self) < 8
         THEN IF Len(colorTable) < 16 THEN {FailFast}
              ELSE IF _index(self) + 8 > Len(colorTable) THEN {FailFast}
              ELSE Subscript(colorTable, _index(self) + 8)
         ELSE Subscript(colorTable, _index(self))

(***************************************************************************)
(* The calls.                                                              *)
(***************************************************************************)
\* the process runs until a fail-fast or a fault
Alive == ret.out.kind \notin {"failfast", "fault"}

Assign(self) ==
    /\ _meta' = self.meta
    /\ _red' = self.red
    /\ _green' = self.green
    /\ _blue' = self.blue

Call(name, colorTable, defaultColor, brighten, outcome) ==
    [op |-> name, colorTable |-> colorTable, defaultColor |-> defaultColor,
     brighten |-> brighten, out |-> outcome]

Plain(name, outcome) == Call(name, <<>>, 0, FALSE, outcome)

Init ==
    /\ \E c \in Colors : \E self \in {TextColor(GetRValue(c), GetGValue(c), GetBValue(c))} :
          /\ _meta = self.meta
          /\ _red = self.red
          /\ _green = self.green
          /\ _blue = self.blue
    /\ lastSetter = [name |-> "none", arg |-> 0]
    /\ ret = Plain("TextColor", Void)

CallSetColor ==
    /\ Alive
    /\ \E rgbColor \in Colors :
          /\ Assign(SetColor(this, rgbColor))
          /\ lastSetter' = [name |-> "SetColor", arg |-> rgbColor]
    /\ ret' = Plain("SetColor", Void)

CallSetIndex ==
    /\ Alive
    /\ \E index \in Indices :
          /\ Assign(SetIndex(this, index))
          /\ lastSetter' = [name |-> "SetIndex", arg |-> index]
    /\ ret' = Plain("SetIndex", Void)

CallSetDefault ==
    /\ Alive
    /\ Assign(SetDefault(this))
    /\ lastSetter' = [name |-> "SetDefault", arg |-> 0]
    /\ ret' = Plain("SetDefault", Void)

CallIsLegacy ==
    /\ Alive
    /\ ret' = Plain("IsLegacy", Bool(IsLegacy(this)))
    /\ UNCHANGED <<_meta, _red, _green, _blue, lastSetter>>

CallIsDefault ==
    /\ Alive
    /\ ret' = Plain("IsDefault", Bool(IsDefault(this)))
    /\ UNCHANGED <<_meta, _red, _green, _blue, lastSetter>>

CallIsRgb ==
    /\ Alive
    /\ ret' = Plain("IsRgb", Bool(IsRgb(this)))
    /\ UNCHANGED <<_meta, _red, _green, _blue, lastSetter>>

\* mutant: brightening a dark index stores the brightened index
CallGetColor_StoresBright ==
    /\ Alive
    /\ \E colorTable \in Palettes, defaultColor \in DefaultColors, brighten \in BOOLEAN :
          /\ \E outcome \in GetColor(this, colorTable, defaultColor, brighten) :
                ret' = Call("GetColor", colorTable, defaultColor, brighten, outcome)
          /\ _red' = IF IsLegacy(this) /\ brighten /\ _index(this) < 8
                     THEN _index(this) + 8
                     ELSE _red
    /\ UNCHANGED <<_meta, _green, _blue, lastSetter>>

CallGetColor ==
    /\ Alive
    /\ \E colorTable \in Palettes, defaultColor \in DefaultColors, brighten \in BOOLEAN :
          \E outcome \in GetColor(this, colorTable, defaultColor, brighten) :
             ret' = Call("GetColor", colorTable, defaultColor, brighten, outcome)
    /\ UNCHANGED <<_meta, _red, _green, _blue, lastSetter>>

Next ==
    \/ CallSetColor
    \/ CallSetIndex
    \/ CallSetDefault
    \/ CallIsLegacy
    \/ CallIsDefault
    \/ CallIsRgb
    \/ CallGetColor

Spec == Init /\ [][Next]_vars

TypeOK ==
    /\ _meta \in {"IsDefault", "IsRgb", "IsIndex"}
    /\ _red \in 0 .. 255
    /\ _green \in 0 .. 255
    /\ _blue \in 0 .. 255

(***************************************************************************)
(* Properties.  In the state after a GetColor call, ret holds the          *)
(* arguments and the outcome of the call and `this` is the object it was   *)
(* called on; lastSetter is the last setter called on the object and its   *)
(* argument.                                                               *)
(***************************************************************************)
Resolved == ret.op = "GetColor"

Indexed(i) == lastSetter = [name |-> "SetIndex", arg |-> i]

\* colorTable[pos] of the resolved call, pos in range
Table(pos) == ret.colorTable[pos + 1]

\* C1: resolving an indexed colour against a colour table whose length is
\* not strictly greater than the index fails fast, for either value of
\* brighten, without reading the table or returning a colour.
C1_FailFastUnlessTableLonger ==
    (Resolved /\ lastSetter.name = "SetIndex" /\ Len(ret.colorTable) <= lastSetter.arg)
        => ret.out = FailFast

\* C2: after SetIndex(i) with i in [0,7], resolving against a table of at
\* least 16 entries returns entry i+8 when brighten is set and entry i when
\* it is not, and does not fail.
C2_DarkIndexResolves ==
    \A i \in 0 .. 7 :
        (Resolved /\ Indexed(i) /\ Len(ret.colorTable) >= 16)
            => ret.out = IF ret.brighten
                         THEN Returned(Table(i + 8), i + 8)
                         ELSE Returned(Table(i), i)

C2_Witness ==
    /\ Resolved /\ Indexed(7) /\ Len(ret.colorTable) = 16 /\ ret.brighten
    /\ ret.out.kind = "color" /\ ret.out.color = Table(15)

\* C3: after SetIndex(i) with i in [8,255], resolving against a table longer
\* than i returns entry i whether brighten is set or not.
C3_BrightenIgnoredFromEight ==
    \A i \in 8 .. 255 :
        (Resolved /\ Indexed(i) /\ Len(ret.colorTable) > i)
            => ret.out = Returned(Table(i), i)

C3_Witness ==
    /\ Resolved /\ Indexed(200) /\ Len(ret.colorTable) = 256 /\ ret.brighten
    /\ ret.out.kind = "color" /\ ret.out.color = Table(200)

\* C4: after SetIndex(i) with i in [0,7], resolving with brighten set fails
\* fast whenever the table has fewer than 16 entries, also when it has more
\* than i entries; and when a colour is returned, the position read is i+8
\* and lies inside the table.
C4_BrightenNeedsSixteen ==
    \A i \in 0 .. 7 :
        (Resolved /\ Indexed(i) /\ ret.brighten)
            => /\ Len(ret.colorTable) < 16 => ret.out = FailFast
               /\ ret.out.kind = "color"
                     => ret.out.read = i + 8 /\ ret.out.read < Len(ret.colorTable)

C4_Witness ==
    /\ Resolved /\ Indexed(3) /\ ret.brighten
    /\ Len(ret.colorTable) = 8 /\ ret.out = FailFast

\* C5: after SetColor(C) with C a colour of 8 bits per channel, resolving
\* returns exactly C for every table (the empty one too), every default
\* colour and either value of brighten.
C5_RgbRoundTrip ==
    (Resolved /\ lastSetter.name = "SetColor" /\ lastSetter.arg < 16777216)
        => ret.out = Returned(lastSetter.arg, NoRead)

C5_Witness ==
    /\ Resolved /\ lastSetter = [name |-> "SetColor", arg |-> 658188]
    /\ ret.colorTable = <<>> /\ ret.brighten
    /\ ret.out.kind = "color" /\ ret.out.color = 658188

\* C6: after SetDefault, resolving returns the default colour passed in, for
\* every table (the empty one too) and either value of brighten, whatever
\* payload bytes earlier setters left behind.
C6_DefaultResolvesToDefault ==
    (Resolved /\ lastSetter.name = "SetDefault")
        => ret.out = Returned(ret.defaultColor, NoRead)

C6_Witness ==
    /\ Resolved /\ lastSetter.name = "SetDefault"
    /\ _red = 200 /\ _green = 11 /\ _blue = 10
    /\ ret.colorTable = <<>> /\ ret.brighten
    /\ ret.out.kind = "color" /\ ret.out.color = ret.defaultColor

\* C7: in every reachable state IsLegacy is true iff IsDefault and IsRgb are
\* both false, exactly one of the three queries is true, and it is the one
\* of the setter called last (IsDefault when no setter was called); the
\* query calls return these values.
C7_ExactlyOneQuery ==
    /\ IsLegacy(this) <=> (~IsDefault(this) /\ ~IsRgb(this))
    /\ Cardinality({q \in {"IsDefault", "IsRgb", "IsLegacy"} :
                       \/ q = "IsDefault" /\ IsDefault(this)
                       \/ q = "IsRgb" /\ IsRgb(this)
                       \/ q = "IsLegacy" /\ IsLegacy(this)}) = 1
    /\ IsDefault(this) <=> lastSetter.name \in {"none", "SetDefault"}
    /\ IsRgb(this) <=> lastSetter.name = "SetColor"
    /\ IsLegacy(this) <=> lastSetter.name = "SetIndex"
    /\ ret.op = "IsDefault" => ret.out = Bool(lastSetter.name \in {"none", "SetDefault"})
    /\ ret.op = "IsRgb" => ret.out = Bool(lastSetter.name = "SetColor")
    /\ ret.op = "IsLegacy" => ret.out = Bool(lastSetter.name = "SetIndex")

C7_Witness ==
    /\ ret.op = "IsLegacy" /\ ret.out = Bool(TRUE)
    /\ lastSetter.name = "SetIndex" /\ _green = 255

\* C8: a call fails fast only if it is GetColor on an indexed colour and
\* either the table length is at most the index, or brighten is set, the
\* index is below 8 and the table has fewer than 16 entries; every other
\* call completes: it neither fails fast nor faults.
C8_MayFail ==
    /\ Resolved
    /\ _meta = "IsIndex"
    /\ \/ Len(ret.colorTable) <= _index(this)
       \/ ret.brighten /\ _index(this) < 8 /\ Len(ret.colorTable) < 16

C8_FailFastOnlyInResolve ==
    /\ ret.out.kind = "failfast" => C8_MayFail
    /\ ~C8_MayFail => ret.out.kind \in {"void", "bool", "color"}
    /\ (~C8_MayFail /\ ret.out.kind = "color" /\ ret.out.read # NoRead)
          => ret.out.read < Len(ret.colorTable)

C8_Witness ==
    /\ Resolved /\ ret.out = FailFast /\ ~ret.brighten
    /\ _meta = "IsIndex" /\ _index(this) = 200 /\ Len(ret.colorTable) = 17

\* C9: every setter moves the object to its own tag, and what GetColor and
\* the three queries do on the object is what they do on a freshly
\* constructed object on which only the last setter was called: earlier
\* calls and the payload bytes they left make no difference.
Fresh == {TextColor(GetRValue(c), GetGValue(c), GetBValue(c)) : c \in Colors}

LastOnly(self) ==
    CASE lastSetter.name = "SetColor" -> SetColor(self, lastSetter.arg)
      [] lastSetter.name = "SetIndex" -> SetIndex(self, lastSetter.arg)
      [] lastSetter.name = "SetDefault" -> SetDefault(self)
      [] OTHER -> self

C9_OnlyLastSetterMatters ==
    /\ ret.op = "SetColor" => ret.out = Void /\ _meta = "IsRgb"
    /\ ret.op = "SetIndex" => ret.out = Void /\ _meta = "IsIndex"
    /\ ret.op = "SetDefault" => ret.out = Void /\ _meta = "IsDefault"
    /\ \A self \in Fresh :
          /\ IsDefault(this) = IsDefault(LastOnly(self))
          /\ IsRgb(this) = IsRgb(LastOnly(self))
          /\ IsLegacy(this) = IsLegacy(LastOnly(self))
          /\ \A colorTable \in Palettes, defaultColor \in DefaultColors, brighten \in BOOLEAN :
                GetColor(this, colorTable, defaultColor, brighten)
                    = GetColor(LastOnly(self), colorTable, defaultColor, brighten)
          /\ Resolved => ret.out \in GetColor(LastOnly(self), ret.colorTable,
                                              ret.defaultColor, ret.brighten)

C9_Witness ==
    /\ Resolved /\ Indexed(5) /\ _green = 11 /\ _blue = 10
    /\ Len(ret.colorTable) = 16 /\ ret.brighten
    /\ ret.out.kind = "color" /\ ret.out.color = Table(13)

\* C10: GetColor and the three queries leave the tag and the payload bytes
\* as they were; after a brightened GetColor on a dark index i returned
\* entry i+8, the stored index is still i and a GetColor without brighten on
\* the same table returns entry i; SetDefault changes the tag only.
C10_Step ==
    /\ ret'.op \in {"GetColor", "IsDefault", "IsRgb", "IsLegacy"} => this' = this
    /\ ret'.op = "SetDefault"
          => /\ _meta' = "IsDefault"
             /\ <<_red', _green', _blue'>> = <<_red, _green, _blue>>
    /\ \A i \in 0 .. 7 :
          (/\ Resolved /\ Indexed(i) /\ ret.brighten /\ ret.out.kind = "color"
           /\ ret'.op = "GetColor" /\ ~ret'.brighten /\ ret'.colorTable = ret.colorTable)
              => /\ ret.out.color = Table(i + 8)
                 /\ _index(this) = i
                 /\ ret'.out = Returned(Table(i), i)

C10_ReadsLeaveValueUnchanged == [][C10_Step]_vars

C10_Witness ==
    /\ Resolved /\ Indexed(2) /\ ret.brighten /\ Len(ret.colorTable) = 17
    /\ ret.out.kind = "color" /\ ret.out.color = Table(10)
    /\ _meta = "IsIndex" /\ _index(this) = 2
====
